---- MODULE Spec2Model ----
(***************************************************************************)
(* Model of roll20/utils/inner_sea_calendar.py: the Inner Sea calendar.    *)
(*                                                                         *)
(* The functions of the module are pure.  A behaviour of the model draws a *)
(* valid date, converts it to its epoch day with getEpocDay and then       *)
(* applies one of the functions of the module to the date or to the epoch  *)
(* day; the state keeps the arguments, the function's return value and the *)
(* exception it raised.                                                    *)
(*                                                                         *)
(* Floating point.  The only non-integer quantities of the program are the *)
(* year length 365 + 1.0/8 and the moon period 29.5.  Both are dyadic, so  *)
(* every product and sum the program forms is an exact multiple of 1/8 and *)
(* is represented here as a fraction num/den of integers.  The two float   *)
(* divisions (epocDay / yearLength, epocDay / MOON_PERIOD) are rounded,    *)
(* but a quotient that is not an integer is at least 1/2921 away from the  *)
(* nearest one, so math.ceil and int() of the rounded quotient equal those *)
(* of the exact quotient.                                                  *)
(***************************************************************************)
EXTENDS Integers, Sequences, FiniteSets

\* Largest year drawn for a date.
MaxYear == 17

----------------------------------------------------------------------------
\* Calendar constants

MONTH_DAYS == << 31, 28, 31, 30, 31, 30, 31, 31, 30, 31, 30, 31 >>
LEAP_DAYS == << 31, 29, 31, 30, 31, 30, 31, 31, 30, 31, 30, 31 >>

WEEK == << "Moonday", "Toilday", "Wealday", "Oathday", "Fireday", "Starday", "Sunday" >>

MONTH == << "Abadius", "Calistril", "Pharast", "Gozren", "Desnus", "Sarenith", "Erastus", "Arodus", "Rova", "Lamashan", "Neth", "Kuthona" >>

MOON_PHASES == << "Full Moon", "Waning Gibbous", "Third Quarter", "Waning Crescent", "New Moon", "Waxing Crescent", "First Quarter", "Waxing Gibbous" >>
PHASE_LENGTH == << 3, 4, 4, 4, 2, 4, 4, 4 >>

\* sum(seq[:n]): the sum of the first n entries of a list
RECURSIVE SumPrefix(_, _)
SumPrefix(seq, n) ==
    IF n <= 0 THEN 0 ELSE SumPrefix(seq, n - 1) + seq[n]

YEAR_LENGTH == SumPrefix(MONTH_DAYS, Len(MONTH_DAYS))
LEAP_YEAR == 8

\* MOON_PERIOD = 29.5 as the fraction MOON_PERIOD_NUM / MOON_PERIOD_DEN
MOON_PERIOD_NUM == 59
MOON_PERIOD_DEN == 2

\* yearLength = YEAR_LENGTH + (1.0 / LEAP_YEAR) as the fraction
\* yearLengthNum / LEAP_YEAR
yearLengthNum == YEAR_LENGTH * LEAP_YEAR + 1

\* seq[i] of Python: lists are indexed from 0
Index0(seq, i) == seq[i + 1]

\* int(num/den) of Python, den > 0: truncation toward zero
IntTrunc(num, den) ==
    IF num >= 0 THEN num \div den ELSE -((-num) \div den)

\* math.ceil(num/den), den > 0
Ceil(num, den) == -((-num) \div den)

----------------------------------------------------------------------------
\* Epoch conversion

\* getYear with the quotient rounded down and one added instead of math.ceil
getYear_floor(epocDay) ==
    ((epocDay * LEAP_YEAR) \div yearLengthNum) + 1

getYear(epocDay) ==
    Ceil(epocDay * LEAP_YEAR, yearLengthNum)

\* getDayInYear without the final + 1
getDayInYear_zero(epocDay) ==
    LET year == getYear(epocDay)
    IN  IntTrunc(epocDay * LEAP_YEAR - (year - 1) * yearLengthNum, LEAP_YEAR)

getDayInYear(epocDay) ==
    LET year == getYear(epocDay)
    IN  IntTrunc(epocDay * LEAP_YEAR - (year - 1) * yearLengthNum, LEAP_YEAR) + 1

\* cal = MONTH_DAYS; if isLeapYear: cal = LEAP_DAYS
CalOf(year) ==
    IF (year % 8) = 0 THEN LEAP_DAYS ELSE MONTH_DAYS

\* The loop  while dayInYear > cal[month]: dayInYear -= cal[month]; month += 1
\* of getMonthInYear and getDayInMonth.  Reading cal[12] raises IndexError.
RECURSIVE MonthWalk(_, _, _)
MonthWalk(cal, dayInYear, month) ==
    IF month >= Len(cal)
    THEN [month |-> month, dayInYear |-> dayInYear, raised |-> "IndexError"]
    ELSE IF dayInYear > Index0(cal, month)
         THEN MonthWalk(cal, dayInYear - Index0(cal, month), month + 1)
         ELSE [month |-> month, dayInYear |-> dayInYear, raised |-> "None"]

\* The locals of getMonthInYear / getDayInMonth when the loop is left
MonthWalkOf(epocDay) ==
    MonthWalk(CalOf(getYear(epocDay)), getDayInYear(epocDay), 0)

getMonthInYear(epocDay) == MonthWalkOf(epocDay).month + 1

getDayInMonth(epocDay) == MonthWalkOf(epocDay).dayInYear

\* getEpocDay that always sums the month lengths of MONTH_DAYS
getEpocDay_noleap(day, month, year) ==
    IntTrunc(yearLengthNum * (year - 1)
               + LEAP_YEAR * SumPrefix(MONTH_DAYS, month - 1)
               + LEAP_YEAR * day,
             LEAP_YEAR)

getEpocDay(day, month, year) ==
    LET cal == CalOf(year)
    IN  IntTrunc(yearLengthNum * (year - 1)
                   + LEAP_YEAR * SumPrefix(cal, month - 1)
                   + LEAP_YEAR * day,
                 LEAP_YEAR)

----------------------------------------------------------------------------
\* Weekday

\* getEpocDayOfWeek without the - 1
getEpocDayOfWeek_mod(epocDay) == (epocDay % Len(WEEK)) + 1

getEpocDayOfWeek(epocDay) == ((epocDay - 1) % Len(WEEK)) + 1

getDayOfWeek(day, month, year) ==
    LET epocDay == getEpocDay(day, month, year)
    IN  ((epocDay - 1) % Len(WEEK)) + 1

getNamedDayOfWeek(day, month, year) ==
    LET dayOfWeek == getDayOfWeek(day, month, year)
    IN  Index0(WEEK, dayOfWeek - 1)

----------------------------------------------------------------------------
\* Moon phase

\* MoonDay with the number of elapsed periods rounded to the nearest integer
\* instead of truncated
MoonDay_round(epocDay) ==
    epocDay - IntTrunc(MOON_PERIOD_NUM
                         * ((2 * epocDay * MOON_PERIOD_DEN + MOON_PERIOD_NUM)
                              \div (2 * MOON_PERIOD_NUM)),
                       MOON_PERIOD_DEN)

\* moonDay = epocDay - int(MOON_PERIOD * int(epocDay / MOON_PERIOD))
MoonDay(epocDay) ==
    epocDay - IntTrunc(MOON_PERIOD_NUM
                         * IntTrunc(epocDay * MOON_PERIOD_DEN, MOON_PERIOD_NUM),
                       MOON_PERIOD_DEN)

\* PhaseWalk that advances the phase when the rest is >= 0
RECURSIVE PhaseWalk_ge(_, _, _)
PhaseWalk_ge(moonDay, phase, passes) ==
    IF moonDay > 0
    THEN IF phase >= Len(PHASE_LENGTH)
         THEN [phase |-> phase, passes |-> passes, raised |-> "IndexError"]
         ELSE LET rest == moonDay - Index0(PHASE_LENGTH, phase)
              IN  PhaseWalk_ge(rest, IF rest >= 0 THEN phase + 1 ELSE phase, passes + 1)
    ELSE [phase |-> phase, passes |-> passes, raised |-> "None"]

\* The loop  while moonDay > 0: moonDay -= PHASE_LENGTH[phase];
\*                              if moonDay > 0: phase += 1
\* Reading PHASE_LENGTH[8] raises IndexError.
RECURSIVE PhaseWalk(_, _, _)
PhaseWalk(moonDay, phase, passes) ==
    IF moonDay > 0
    THEN IF phase >= Len(PHASE_LENGTH)
         THEN [phase |-> phase, passes |-> passes, raised |-> "IndexError"]
         ELSE LET rest == moonDay - Index0(PHASE_LENGTH, phase)
              IN  PhaseWalk(rest, IF rest > 0 THEN phase + 1 ELSE phase, passes + 1)
    ELSE [phase |-> phase, passes |-> passes, raised |-> "None"]

\* The locals of getMoonPhase at its return statement and the name it
\* returns; MOON_PHASES[phase] raises IndexError when phase is outside the
\* table.
getMoonPhase(day, month, year) ==
    LET epocDay == getEpocDay(day, month, year)
        moonDay == MoonDay(epocDay)
        walk == PhaseWalk(moonDay, 0, 0)
    IN  IF walk.raised = "None" /\ walk.phase < Len(MOON_PHASES)
        THEN [moonDay |-> moonDay, phase |-> walk.phase, passes |-> walk.passes,
              raised |-> "None", name |-> Index0(MOON_PHASES, walk.phase)]
        ELSE [moonDay |-> moonDay, phase |-> walk.phase, passes |-> walk.passes,
              raised |-> "IndexError", name |-> ""]

----------------------------------------------------------------------------
\* Month renderer.  The html string is the sequence of its lines; a line is
\* a record of its tag, the day number of a numbered cell (0: no number) and
\* the text of a heading.

Line(tag, n, text) == [tag |-> tag, day |-> n, text |-> text]

\* for name in WEEK: html += "<th>" + name + "</th>\n"
HeaderCells == [i \in 1..Len(WEEK) |-> Line("<th>", 0, WEEK[i])]

\* One pass of the body of the loop  while today <= epocEndDay  of calendar:
\* the lines it appends to html
LoopBody(today, epocStartDay) ==
    (IF getEpocDayOfWeek(today) = 1 THEN << Line("<tr>", 0, "") >> ELSE << >>)
    \o (IF today < epocStartDay
        THEN << Line("<td>", 0, "") >>
        ELSE << Line("<td>", getDayInMonth(today), "") >>)
    \o (IF getEpocDayOfWeek(today) = 7 THEN << Line("</tr>", 0, "") >> ELSE << >>)

\* The loop  while today <= epocEndDay  of calendar: the lines appended to
\* html from today on
RECURSIVE CalendarLoop(_, _, _)
CalendarLoop(today, epocStartDay, epocEndDay) ==
    IF today <= epocEndDay
    THEN LoopBody(today, epocStartDay)
           \o CalendarLoop(today + 1, epocStartDay, epocEndDay)
    ELSE << >>

\* str(getDayInMonth(today)) raises IndexError for a day of the month whose
\* month walk leaves the table; calendar does not catch it
CalendarRaised(epocStartDay, epocEndDay) ==
    IF \E today \in epocStartDay..epocEndDay : MonthWalkOf(today).raised # "None"
    THEN "IndexError"
    ELSE "None"

calendar(month, year) ==
    LET cal == CalOf(year)
        epocStartDay == getEpocDay(1, month, year)
        epocEndDay == getEpocDay(Index0(cal, month - 1), month, year)
        head == << Line("<h2>", 0, Index0(MONTH, month - 1)),
                   Line("<table>", 0, ""),
                   Line("<tr>", 0, "") >>
                \o HeaderCells
                \o << Line("</tr>", 0, "") >>
        today == epocStartDay + 1 - getEpocDayOfWeek(epocStartDay)
    IN  IF CalendarRaised(epocStartDay, epocEndDay) # "None"
        THEN [html |-> << >>, raised |-> CalendarRaised(epocStartDay, epocEndDay)]
        ELSE [html |-> head
                       \o CalendarLoop(today, epocStartDay, epocEndDay)
                       \o << Line("</table>", 0, "") >>,
              raised |-> "None"]

----------------------------------------------------------------------------
\* State: the date a function is applied to, its epoch day (0: not yet
\* computed; epoch day 0 does not exist), the function applied, what it
\* returned (ret: a number, name: a string, html: the lines of a table) or
\* raised, and the locals of its loop when it was left (idx: the index month
\* or phase, passes: the passes of the loop made, moonDay: the moon day the
\* phase walk started from).

VARIABLES day, month, year, epocDay, called, ret, name, html, raised, idx, passes, moonDay

vars == << day, month, year, epocDay, called, ret, name, html, raised, idx, passes, moonDay >>

Init ==
    /\ year \in 1..MaxYear
    /\ month \in 1..12
    /\ day \in 1..CalOf(year)[month]
    /\ epocDay = 0
    /\ called = "none"
    /\ ret = 0
    /\ name = ""
    /\ html = << >>
    /\ raised = "None"
    /\ idx = 0
    /\ passes = 0
    /\ moonDay = 0

\* epocDay = getEpocDay(day, month, year)
CallGetEpocDay ==
    /\ called = "none"
    /\ epocDay = 0
    /\ epocDay' = getEpocDay(day, month, year)
    /\ UNCHANGED << day, month, year, called, ret, name, html, raised, idx, passes, moonDay >>

CallGetYear ==
    /\ called = "none"
    /\ epocDay >= 1
    /\ called' = "getYear"
    /\ ret' = getYear(epocDay)
    /\ UNCHANGED << day, month, year, epocDay, name, html, raised, idx, passes, moonDay >>

CallGetDayInYear ==
    /\ called = "none"
    /\ epocDay >= 1
    /\ called' = "getDayInYear"
    /\ ret' = getDayInYear(epocDay)
    /\ UNCHANGED << day, month, year, epocDay, name, html, raised, idx, passes, moonDay >>

CallGetMonthInYear ==
    /\ called = "none"
    /\ epocDay >= 1
    /\ called' = "getMonthInYear"
    /\ LET walk == MonthWalkOf(epocDay)
       IN  /\ raised' = walk.raised
           /\ idx' = walk.month
           /\ passes' = walk.month
           /\ ret' = IF walk.raised = "None" THEN getMonthInYear(epocDay) ELSE 0
    /\ UNCHANGED << day, month, year, epocDay, name, html, moonDay >>

CallGetDayInMonth ==
    /\ called = "none"
    /\ epocDay >= 1
    /\ called' = "getDayInMonth"
    /\ LET walk == MonthWalkOf(epocDay)
       IN  /\ raised' = walk.raised
           /\ idx' = walk.month
           /\ passes' = walk.month
           /\ ret' = IF walk.raised = "None" THEN getDayInMonth(epocDay) ELSE 0
    /\ UNCHANGED << day, month, year, epocDay, name, html, moonDay >>

CallGetDayOfWeek ==
    /\ called = "none"
    /\ epocDay >= 1
    /\ called' = "getDayOfWeek"
    /\ ret' = getDayOfWeek(day, month, year)
    /\ UNCHANGED << day, month, year, epocDay, name, html, raised, idx, passes, moonDay >>

CallGetEpocDayOfWeek ==
    /\ called = "none"
    /\ epocDay >= 1
    /\ called' = "getEpocDayOfWeek"
    /\ ret' = getEpocDayOfWeek(epocDay)
    /\ UNCHANGED << day, month, year, epocDay, name, html, raised, idx, passes, moonDay >>

CallGetNamedDayOfWeek ==
    /\ called = "none"
    /\ epocDay >= 1
    /\ called' = "getNamedDayOfWeek"
    /\ name' = getNamedDayOfWeek(day, month, year)
    /\ UNCHANGED << day, month, year, epocDay, ret, html, raised, idx, passes, moonDay >>

CallGetMoonPhase ==
    /\ called = "none"
    /\ epocDay >= 1
    /\ called' = "getMoonPhase"
    /\ LET r == getMoonPhase(day, month, year)
       IN  /\ raised' = r.raised
           /\ idx' = r.phase
           /\ passes' = r.passes
           /\ moonDay' = r.moonDay
           /\ name' = r.name
    /\ UNCHANGED << day, month, year, epocDay, ret, html >>

\* calendar(month, year); the day of the date is not an argument
CallCalendar ==
    /\ called = "none"
    /\ epocDay >= 1
    /\ day = 1
    /\ called' = "calendar"
    /\ LET r == calendar(month, year)
       IN  /\ raised' = r.raised
           /\ html' = r.html
    /\ UNCHANGED << day, month, year, epocDay, ret, name, idx, passes, moonDay >>

Next ==
    \/ CallGetEpocDay
    \/ CallGetYear
    \/ CallGetDayInYear
    \/ CallGetMonthInYear
    \/ CallGetDayInMonth
    \/ CallGetDayOfWeek
    \/ CallGetEpocDayOfWeek
    \/ CallGetNamedDayOfWeek
    \/ CallGetMoonPhase
    \/ CallCalendar

Spec == Init /\ [][Next]_vars

----------------------------------------------------------------------------
\* Properties

\* The length of month m of year y as the calendar defines it
DaysInMonth(m, y) ==
    IF m = 2 THEN (IF y % 8 = 0 THEN 29 ELSE 28)
    ELSE IF m \in {4, 6, 9, 11} THEN 30 ELSE 31

\* The date that follows a valid date
NextDate(d, m, y) ==
    IF d < DaysInMonth(m, y) THEN [day |-> d + 1, month |-> m, year |-> y]
    ELSE IF m < 12 THEN [day |-> 1, month |-> m + 1, year |-> y]
    ELSE [day |-> 1, month |-> 1, year |-> y + 1]

\* The index of a phase name in MOON_PHASES (from 0)
PhaseIndexOf(n) == CHOOSE i \in 0..(Len(MOON_PHASES) - 1) : Index0(MOON_PHASES, i) = n

\* The day numbers of the numbered cells of a table, in output order
NumberedCells(lines) ==
    SelectSeq(lines, LAMBDA l : l.tag = "<td>" /\ l.day # 0)

\* C1: round trip.  For every valid date, getMonthInYear of its epoch day
\* returns the month and getDayInMonth of its epoch day returns the day,
\* also in year 1 and in the years y with (y - 1) % 8 = 0.
C1_RoundTrip ==
    /\ called = "getMonthInYear" => (raised = "None" /\ ret = month)
    /\ called = "getDayInMonth" => (raised = "None" /\ ret = day)

\* C2 as stated: getDayInYear(e) lies in 1 .. 365, the year length rounded.
C2_DayInYearAtMost365 ==
    called = "getDayInYear" => ret \in 1..YEAR_LENGTH

\* C2 as amended: getDayInYear(e) lies in 1 .. 366, is never 0, and is
\* int(e - (getYear(e) - 1) * 365.125) + 1.
C2_DayInYearRange ==
    called = "getDayInYear" =>
        /\ ret \in 1..(YEAR_LENGTH + 1)
        /\ ret = ((epocDay * 8 - (getYear(epocDay) - 1) * 2921) \div 8) + 1

C2_Witness ==
    /\ called = "getDayInYear"
    /\ year = 8 /\ month = 12 /\ day = 31
    /\ ret = 366

\* C3: getEpocDay numbers the valid dates consecutively from
\* getEpocDay(1,1,1) = 1: the date after a valid date has the next epoch
\* day, within a month, across months (month 2 has 29 days when
\* year % 8 = 0 and 28 otherwise) and across a year boundary.
C3_Consecutive ==
    epocDay >= 1 =>
        /\ (day = 1 /\ month = 1 /\ year = 1) => epocDay = 1
        /\ LET n == NextDate(day, month, year)
           IN  getEpocDay(n.day, n.month, n.year) = epocDay + 1
        /\ (day = 1 /\ month = 2) =>
               getEpocDay(1, 3, year) - epocDay = (IF year % 8 = 0 THEN 29 ELSE 28)
        /\ (day = 31 /\ month = 12) => getEpocDay(1, 1, year + 1) = epocDay + 1

C3_Witness ==
    /\ epocDay >= 1
    /\ year = 8 /\ month = 12 /\ day = 31
    /\ getEpocDay(1, 1, year + 1) = epocDay + 1
    /\ getEpocDay(1, 3, year) - getEpocDay(1, 2, year) = 29

\* C4: getDayOfWeek of a valid date equals getEpocDayOfWeek of its epoch
\* day, ((e - 1) mod 7) + 1, in 1..7; getNamedDayOfWeek returns the entry of
\* WEEK for that value; epoch day 1 is Moonday; epoch days that differ by
\* 7 have the same weekday.
C4_Weekday ==
    /\ called = "getDayOfWeek" =>
           /\ ret = getEpocDayOfWeek(epocDay)
           /\ ret = ((epocDay - 1) % 7) + 1
           /\ ret \in 1..7
    /\ called = "getEpocDayOfWeek" =>
           /\ ret = ((epocDay - 1) % 7) + 1
           /\ ret \in 1..7
           /\ ret = getEpocDayOfWeek(epocDay + 7)
           /\ epocDay = 1 => ret = 1
    /\ called = "getNamedDayOfWeek" =>
           /\ name = Index0(WEEK, getEpocDayOfWeek(epocDay) - 1)
           /\ epocDay = 1 => name = "Moonday"

C4_Witness ==
    /\ called = "getNamedDayOfWeek"
    /\ epocDay = 8
    /\ name = "Moonday"

\* C5: the phase of the date after a valid date is the same phase or the
\* next one in table order, cyclically (Waxing Gibbous is followed by Full
\* Moon), also where the 29.5-day cycle wraps.
C5_PhaseOrder ==
    called = "getMoonPhase" =>
        LET n == NextDate(day, month, year)
            r == getMoonPhase(n.day, n.month, n.year)
        IN  /\ raised = "None"
            /\ r.raised = "None"
            /\ PhaseIndexOf(r.name) \in
                   { PhaseIndexOf(name), (PhaseIndexOf(name) + 1) % 8 }

C5_Witness ==
    /\ called = "getMoonPhase"
    /\ name = "Waxing Gibbous"
    /\ moonDay = 29
    /\ LET n == NextDate(day, month, year)
           r == getMoonPhase(n.day, n.month, n.year)
       IN  r.moonDay = 0 /\ r.name = "Full Moon"

\* C6: calendar(month, year) completes and its numbered cells, in output
\* order, are 1, 2, ..., N, N the length of the month; also in year 1.
C6_NumberedCells ==
    called = "calendar" =>
        /\ raised = "None"
        /\ LET cells == NumberedCells(html)
           IN  /\ Len(cells) = DaysInMonth(month, year)
               /\ \A i \in 1..Len(cells) : cells[i].day = i

\* C7: every week row opened with <tr> holds exactly 7 cells and is closed
\* with </tr> before the table ends.
C7_WeekRows ==
    (called = "calendar" /\ raised = "None") =>
        \A i \in 1..Len(html) :
            html[i].tag = "<tr>" =>
                /\ i + 8 <= Len(html)
                /\ \A k \in 1..7 : html[i + k].tag \in {"<td>", "<th>"}
                /\ html[i + 8].tag = "</tr>"

\* C8: getYear of the epoch day of a valid date is the year of the date,
\* also on the first and the last day of a year, so the month walk selects
\* the month table getEpocDay used.
C8_YearRecovered ==
    called = "getYear" =>
        /\ ret = year
        /\ CalOf(ret) = CalOf(year)

C8_Witness ==
    /\ called = "getYear"
    /\ year = 8 /\ month = 12 /\ day = 31
    /\ epocDay = 2921
    /\ ret = 8

\* C9: the month walk of getMonthInYear(e) and getDayInMonth(e) stops
\* inside the 12-entry table: no IndexError, month index below 12,
\* getMonthInYear(e) in 1..12, getDayInMonth(e) in 1..cal[month].
C9_WalkInsideTable ==
    /\ called \in {"getMonthInYear", "getDayInMonth"} =>
           (raised = "None" /\ idx < 12)
    /\ called = "getMonthInYear" => ret \in 1..12
    /\ called = "getDayInMonth" =>
           (idx < 12 /\ ret \in 1..Index0(CalOf(getYear(epocDay)), idx))

====
